---- MODULE Spec2Model ----
(***************************************************************************)
(* Free-slot computation of the scritchlow-calendar service                *)
(* (src/api/index.js, first revision in the file: findSlots and the        *)
(* GET /api/free-slots handler).                                           *)
(*                                                                         *)
(* Instants are integers: minutes since an arbitrary UTC midnight.  An ISO *)
(* timestamp at the boundary and the dayjs object made from it denote the  *)
(* same instant, so both are the integer.  The server process runs in UTC  *)
(* (the deployment target of the repository), hence cursor.add(1, "day")   *)
(* advances the instant by 24 hours.                                       *)
(***************************************************************************)
EXTENDS Integers, Sequences, FiniteSets, TLC

VARIABLES phase, req, f, clock, ticks, nowAtStart, readNow, fbCalls, fb, resp,
          events, book, inserts

slotVars == <<phase, req, f, clock, ticks, nowAtStart, readNow, fbCalls, fb, resp>>
bookVars == <<events, book, inserts>>
vars == <<slotVars, bookVars>>

----------------------------------------------------------------------------
(* Program constants *)

WORK_START == 540
WORK_END == 1020
MinPerDay == 1440

(* Bounds of the model *)

MaxBusy == 2
MaxTicks == 1
NoCap == 40
MinInstant == 0

----------------------------------------------------------------------------
(* Time zones: a zone is [before, after, at]; its UTC offset (minutes east) *)
(* is `before` for instants earlier than `at` and `after` from `at` on.     *)

Chicago == [before |-> -300, after |-> -300, at |-> 0]
ChicagoFallBack == [before |-> -300, after |-> -360, at |-> 3300]
ChicagoSpringForward == [before |-> -360, after |-> -300, at |-> 3360]

Zones == {Chicago, ChicagoFallBack, ChicagoSpringForward}

Offset(z, t) == IF t < z.at THEN z.before ELSE z.after

\* cursor.tz(tz).format("YYYY-MM-DD"): the civil date of instant t in zone z
LocalDay(t, z) == (t + Offset(z, t)) \div MinPerDay

\* dayjs.tz(`${date}T${hhmm}`, tz).utc(): the instant of wall time hhmm on
\* civil date day in zone z
TzInstant(day, hhmm, z) ==
  LET wall == day * MinPerDay + hhmm
  IN  IF wall - z.before < z.at THEN wall - z.before ELSE wall - z.after

----------------------------------------------------------------------------
(* Input domains *)

Durations == {-60, 0, 120, 180}
Limits == {0, 1, 3, 5}
Froms == {1770, 3210, 3960}
Spans == {-60, 0, 1440, 2880}
ClockStarts == {1000, 3720}
TickStep == 240

BusyBlocks ==
  { [start |-> 3840, end |-> 3900],
    [start |-> 3870, end |-> 3990],
    [start |-> 3700, end |-> 4300],
    [start |-> 3900, end |-> 3900],
    [start |-> 4000, end |-> 3850] }

RECURSIVE SeqsUpTo(_, _)
SeqsUpTo(S, n) ==
  IF n = 0 THEN { <<>> }
  ELSE LET shorter == SeqsUpTo(S, n - 1)
       IN  shorter \cup { Append(s, x) : s \in shorter, x \in S }

BusyReplies == SeqsUpTo(BusyBlocks, MaxBusy)

----------------------------------------------------------------------------
(* findSlots, index.js 68-150 *)

\* .sort((a, b) => new Date(a.start) - new Date(b.start)): stable, by start
RECURSIVE InsertByStart(_, _)
InsertByStart(s, b) ==
  IF s = <<>> THEN <<b>>
  ELSE IF b.start < s[Len(s)].start
       THEN Append(InsertByStart(SubSeq(s, 1, Len(s) - 1), b), s[Len(s)])
       ELSE Append(s, b)

RECURSIVE SortByStart(_)
SortByStart(s) ==
  IF s = <<>> THEN <<>>
  ELSE InsertByStart(SortByStart(SubSeq(s, 1, Len(s) - 1)), s[Len(s)])

OverlapsDayNoUpper(b, dayStart, dayEnd) == b.end > dayStart

\* busy.filter(b => dayjs(b.end).isAfter(dayStart) && dayjs(b.start).isBefore(dayEnd))
OverlapsDay(b, dayStart, dayEnd) == b.end > dayStart /\ b.start < dayEnd

TodaysBusy(busy, dayStart, dayEnd) ==
  SelectSeq(busy, LAMBDA b : OverlapsDay(b, dayStart, dayEnd))

\* slotStart.add(durationMin, "minute")
SlotEnd(slotStart, durationMin) == slotStart + durationMin

SlotStartsBefore(slotStart, durationMin, limit) == slotStart < limit

\* slotStart.add(durationMin, "minute").isSameOrBefore(limit)
SlotFits(slotStart, durationMin, limit) == SlotEnd(slotStart, durationMin) <= limit

NotBeforeNow(slotStart, now) == slotStart >= now

\* slotStart.isAfter(dayjs())
AfterNow(slotStart, now) == slotStart > now

CapExceeded(results, maxSlots) == Len(results) > maxSlots

CapReachedEarly(results, maxSlots) == Len(results) + 1 >= maxSlots

\* results.length >= maxSlots
CapReached(results, maxSlots) == Len(results) >= maxSlots

PushDoubleEnd(results, slotStart, durationMin) ==
  Append(results, [start |-> slotStart, end |-> slotStart + 2 * durationMin])

\* results.push({start, end, label})
Push(results, slotStart, durationMin) ==
  Append(results, [start |-> slotStart, end |-> SlotEnd(slotStart, durationMin)])

AlwaysBusyEnd(windowStart, bEnd) == bEnd

\* if (bEnd.isAfter(windowStart)) windowStart = bEnd
AdvanceWindow(windowStart, bEnd) == IF bEnd > windowStart THEN bEnd ELSE windowStart

\* cursor = cursor.add(1, "day")
NextCursor(cursor) == cursor + MinPerDay

Idle ==
  [pc |-> "idle", fromISO |-> 0, toISO |-> 0, tz |-> Chicago, durationMin |-> 0,
   maxSlots |-> 0, busy |-> <<>>, results |-> <<>>, cursor |-> 0, dayStart |-> 0,
   dayEnd |-> 0, windowStart |-> 0, todaysBusy |-> <<>>, bi |-> 0, slotStart |-> 0]

\* lines 81-87: the frame once the freebusy reply is in
Enter(fromISO, toISO, tz, durationMin, maxSlots, reply) ==
  [Idle EXCEPT !.pc = "day", !.fromISO = fromISO, !.toISO = toISO, !.tz = tz,
               !.durationMin = durationMin, !.maxSlots = maxSlots,
               !.busy = SortByStart(reply), !.cursor = fromISO]

\* lines 89-101 and 144-146: head of the day loop
DayHead(s) ==
  IF s.cursor < s.toISO /\ Len(s.results) < s.maxSlots
  THEN LET day == LocalDay(s.cursor, s.tz)
           dayStart == TzInstant(day, WORK_START, s.tz)
           dayEnd == TzInstant(day, WORK_END, s.tz)
       IN  IF dayEnd > s.fromISO
           THEN [s EXCEPT !.pc = "busy", !.dayStart = dayStart, !.dayEnd = dayEnd,
                          !.windowStart = dayStart,
                          !.todaysBusy = TodaysBusy(s.busy, dayStart, dayEnd),
                          !.bi = 1]
           ELSE [s EXCEPT !.dayStart = dayStart, !.dayEnd = dayEnd,
                          !.cursor = NextCursor(s.cursor)]
  ELSE [s EXCEPT !.pc = "return"]

\* lines 104-109: next busy block of the day
BusyHead(s) ==
  IF s.bi <= Len(s.todaysBusy)
  THEN IF s.todaysBusy[s.bi].start > s.windowStart
       THEN [s EXCEPT !.pc = "gap", !.slotStart = s.windowStart]
       ELSE [s EXCEPT !.pc = "gapdone"]
  ELSE [s EXCEPT !.pc = "tail"]

\* lines 110-121 (limit = bStart) and 131-142 (limit = dayEnd): one iteration
FillIter(s, limit, now, exit) ==
  IF SlotFits(s.slotStart, s.durationMin, limit)
  THEN IF AfterNow(s.slotStart, now)
       THEN LET pushed == Push(s.results, s.slotStart, s.durationMin)
            IN  IF CapReached(pushed, s.maxSlots)
                THEN [s EXCEPT !.results = pushed, !.pc = exit]
                ELSE [s EXCEPT !.results = pushed,
                               !.slotStart = SlotEnd(s.slotStart, s.durationMin)]
       ELSE [s EXCEPT !.slotStart = SlotEnd(s.slotStart, s.durationMin)]
  ELSE [s EXCEPT !.pc = exit]

GapIter(s, now) == FillIter(s, s.todaysBusy[s.bi].start, now, "gapdone")

\* lines 124-125
GapDone(s) ==
  LET w == AdvanceWindow(s.windowStart, s.todaysBusy[s.bi].end)
  IN  IF CapReached(s.results, s.maxSlots)
      THEN [s EXCEPT !.windowStart = w, !.pc = "tail"]
      ELSE [s EXCEPT !.windowStart = w, !.bi = s.bi + 1, !.pc = "busy"]

\* lines 129-130
TailHead(s) ==
  IF Len(s.results) < s.maxSlots /\ s.windowStart < s.dayEnd
  THEN [s EXCEPT !.pc = "tailfill", !.slotStart = s.windowStart]
  ELSE [s EXCEPT !.pc = "nextday"]

TailIter(s, now) == FillIter(s, s.dayEnd, now, "nextday")

\* line 146
NextDay(s) == [s EXCEPT !.cursor = NextCursor(s.cursor), !.pc = "day"]

\* the slot pushed by a fill iteration reads the clock
Reads(s, t) == IF Len(t.results) > Len(s.results) THEN <<clock>> ELSE <<>>

----------------------------------------------------------------------------
(* GET /api/free-slots, index.js 167-229, for requests that carry from and to *)

NoReq == [calendarId |-> FALSE, tz |-> Chicago, durationMin |-> 0, limit |-> 0,
          fromISO |-> 0, toISO |-> 0]

\* the requests a caller can send
Requests ==
  { [calendarId |-> cal, tz |-> z, durationMin |-> d, limit |-> lim,
     fromISO |-> fr, toISO |-> fr + sp] :
      cal \in BOOLEAN, z \in Zones, d \in Durations, lim \in Limits,
      fr \in Froms, sp \in Spans }

\* line 175
MissingCalendar(r) == ~r.calendarId

\* line 199: dayjs(toISOv).isSameOrBefore(dayjs(fromISO))
BadWindow(r) == r.toISO <= r.fromISO

QueriesIssuedTwice(n) == n + 2

\* line 72: calendar.freebusy.query(...) is called once
QueriesIssued(n) == n + 1

ErrorAsBadRequest == [status |-> 400, slots |-> <<>>]

\* lines 222-228: res.status(502).json({error, detail})
ErrorResponse == [status |-> 502, slots |-> <<>>]

NoBooks == <<>>

Init ==
  /\ phase = "idle"
  /\ req = NoReq
  /\ f = Idle
  /\ clock \in ClockStarts
  /\ ticks = 0
  /\ nowAtStart = 0
  /\ readNow = <<>>
  /\ fbCalls = 0
  /\ fb = "none"
  /\ resp = [status |-> 0, slots |-> <<>>]
  /\ events = <<>>
  /\ book = NoBooks
  /\ inserts = <<>>

\* lines 167-201: validation fails, 400
Reject ==
  /\ phase = "idle"
  /\ \E r \in Requests :
       /\ MissingCalendar(r) \/ BadWindow(r)
       /\ req' = r
  /\ phase' = "responded"
  /\ resp' = [status |-> 400, slots |-> <<>>]
  /\ UNCHANGED <<f, clock, ticks, nowAtStart, readNow, fbCalls, fb>>
  /\ UNCHANGED bookVars

\* lines 167-210 and 68-79: validation passes, findSlots issues the freebusy query
Accept ==
  /\ phase = "idle"
  /\ \E r \in Requests :
       /\ ~MissingCalendar(r) /\ ~BadWindow(r)
       /\ req' = r
  /\ phase' = "query"
  /\ fbCalls' = QueriesIssued(fbCalls)
  /\ fb' = "pending"
  /\ nowAtStart' = clock
  /\ UNCHANGED <<f, clock, ticks, readNow, resp>>
  /\ UNCHANGED bookVars

\* lines 72-87: the query resolves
QueryReturn ==
  /\ phase = "query"
  /\ \E reply \in BusyReplies :
       f' = Enter(req.fromISO, req.toISO, req.tz, req.durationMin, req.limit, reply)
  /\ phase' = "finding"
  /\ fb' = "ok"
  /\ UNCHANGED <<req, clock, ticks, nowAtStart, readNow, fbCalls, resp>>
  /\ UNCHANGED bookVars

\* lines 72 and 222-228: the query rejects, the handler answers 502
QueryFail ==
  /\ phase = "query"
  /\ phase' = "responded"
  /\ fb' = "failed"
  /\ resp' = ErrorResponse
  /\ UNCHANGED <<req, f, clock, ticks, nowAtStart, readNow, fbCalls>>
  /\ UNCHANGED bookVars

StepTo(t) ==
  /\ f' = t
  /\ readNow' = readNow \o Reads(f, t)
  /\ UNCHANGED <<phase, req, clock, ticks, nowAtStart, fbCalls, fb, resp>>
  /\ UNCHANGED bookVars

DayStep == phase = "finding" /\ f.pc = "day" /\ StepTo(DayHead(f))
BusyStep == phase = "finding" /\ f.pc = "busy" /\ StepTo(BusyHead(f))
GapStep ==
  /\ phase = "finding" /\ f.pc = "gap"
  /\ f.slotStart >= MinInstant
  /\ StepTo(GapIter(f, clock))
GapDoneStep == phase = "finding" /\ f.pc = "gapdone" /\ StepTo(GapDone(f))
TailStep == phase = "finding" /\ f.pc = "tail" /\ StepTo(TailHead(f))
TailFillStep ==
  /\ phase = "finding" /\ f.pc = "tailfill"
  /\ f.slotStart >= MinInstant
  /\ StepTo(TailIter(f, clock))
NextDayStep == phase = "finding" /\ f.pc = "nextday" /\ StepTo(NextDay(f))

\* lines 149 and 212-221
Respond ==
  /\ phase = "finding" /\ f.pc = "return"
  /\ phase' = "responded"
  /\ resp' = [status |-> 200, slots |-> f.results]
  /\ UNCHANGED <<req, f, clock, ticks, nowAtStart, readNow, fbCalls, fb>>
  /\ UNCHANGED bookVars

\* the wall clock moves on while a request is in progress
Tick ==
  /\ phase \in {"query", "finding"}
  /\ ticks < MaxTicks
  /\ clock' = clock + TickStep
  /\ ticks' = ticks + 1
  /\ UNCHANGED <<phase, req, f, nowAtStart, readNow, fbCalls, fb, resp>>
  /\ UNCHANGED bookVars

Next ==
  \/ Reject
  \/ Accept
  \/ QueryReturn
  \/ QueryFail
  \/ DayStep
  \/ BusyStep
  \/ GapStep
  \/ GapDoneStep
  \/ TailStep
  \/ TailFillStep
  \/ NextDayStep
  \/ Respond
  \/ Tick

Spec == Init /\ [][Next]_vars

----------------------------------------------------------------------------
(* GET /api/free-slots of the root index.js (an earlier revision of the     *)
(* service): the same findSlots, a handler without the window guard, 500 on *)
(* any error.                                                               *)

\* lines 159-160
RootReject ==
  /\ phase = "idle"
  /\ \E r \in Requests :
       /\ MissingCalendar(r)
       /\ req' = r
  /\ phase' = "responded"
  /\ resp' = [status |-> 400, slots |-> <<>>]
  /\ UNCHANGED <<f, clock, ticks, nowAtStart, readNow, fbCalls, fb>>
  /\ UNCHANGED bookVars

\* lines 159-183 and 61-72: every request with a calendarId reaches findSlots
RootAccept ==
  /\ phase = "idle"
  /\ \E r \in Requests :
       /\ ~MissingCalendar(r)
       /\ req' = r
  /\ phase' = "query"
  /\ fbCalls' = QueriesIssued(fbCalls)
  /\ fb' = "pending"
  /\ nowAtStart' = clock
  /\ UNCHANGED <<f, clock, ticks, readNow, resp>>
  /\ UNCHANGED bookVars

\* lines 35-41, 62 and 186-189: getAuth throws when the credentials are not set
RootAuthFail ==
  /\ phase = "idle"
  /\ \E r \in Requests :
       /\ ~MissingCalendar(r)
       /\ req' = r
  /\ phase' = "responded"
  /\ resp' = [status |-> 500, slots |-> <<>>]
  /\ UNCHANGED <<f, clock, ticks, nowAtStart, readNow, fbCalls, fb>>
  /\ UNCHANGED bookVars

\* lines 65 and 186-189: the query rejects, the handler answers 500
RootQueryFail ==
  /\ phase = "query"
  /\ phase' = "responded"
  /\ fb' = "failed"
  /\ resp' = [status |-> 500, slots |-> <<>>]
  /\ UNCHANGED <<req, f, clock, ticks, nowAtStart, readNow, fbCalls>>
  /\ UNCHANGED bookVars

NextRoot ==
  \/ RootReject
  \/ RootAccept
  \/ RootAuthFail
  \/ QueryReturn
  \/ RootQueryFail
  \/ DayStep
  \/ BusyStep
  \/ GapStep
  \/ GapDoneStep
  \/ TailStep
  \/ TailFillStep
  \/ NextDayStep
  \/ Respond
  \/ Tick

SpecRoot == Init /\ [][NextRoot]_vars

----------------------------------------------------------------------------
(* POST /api/book, book.js 8-50 (index.js 242-285 is the same handler       *)
(* behind express routing, answering 502 where this one answers 500)        *)

MaxBooks == 2
\* a field the body does not carry; a start no Date can be made of
None == -1
Unparseable == -2

BookStarts == {None, Unparseable, 3720, 3840}
BookEnds == {None, 3840}

\* the book requests a caller can send
BookRequests ==
  { [method |-> m, keyOk |-> k, calendarId |-> c, start |-> st, end |-> en] :
      m \in {"POST", "GET"}, k \in BOOLEAN, c \in BOOLEAN,
      st \in BookStarts, en \in BookEnds }

BookInvalidOrTaken(b) ==
  \/ ~b.calendarId \/ b.start = None \/ b.end = None
  \/ \E k \in 1..Len(events) : events[k].start = b.start

\* line 25: !calendarId || !start || !end
BookInvalid(b) == ~b.calendarId \/ b.start = None \/ b.end = None

\* lines 10-27: the status of a request answered before the insert, 0 if none
BookRefusal(b) ==
  IF b.method # "POST" THEN 405
  ELSE IF ~b.keyOk THEN 401
  ELSE IF BookInvalid(b) THEN 400
  ELSE 0

\* the calendar may already hold an event in the slot a caller books
InitBook ==
  /\ phase = "idle"
  /\ req = NoReq
  /\ f = Idle
  /\ clock \in ClockStarts
  /\ ticks = 0
  /\ nowAtStart = 0
  /\ readNow = <<>>
  /\ fbCalls = 0
  /\ fb = "none"
  /\ resp = [status |-> 0, slots |-> <<>>]
  /\ events \in { <<>>, <<[start |-> 3720, end |-> 3840]>> }
  /\ book = NoBooks
  /\ inserts = <<>>

\* _lib.js 13-17: new Date(v).toISOString() throws on an invalid date
ToISOThrows(v) == v = Unparseable

\* lines 8-43: a request arrives; it is refused, or building the insert's
\* argument throws (line 38, caught at 46), or events.insert is called
BookArrive ==
  /\ Len(book) < MaxBooks
  /\ \E b \in BookRequests :
       IF BookRefusal(b) # 0
       THEN /\ book' = Append(book, [request |-> b, pc |-> "done",
                                     status |-> BookRefusal(b), reached |-> FALSE])
            /\ UNCHANGED inserts
       ELSE IF ToISOThrows(b.start) \/ ToISOThrows(b.end)
       THEN /\ book' = Append(book, [request |-> b, pc |-> "done",
                                     status |-> 500, reached |-> FALSE])
            /\ UNCHANGED inserts
       ELSE /\ book' = Append(book, [request |-> b, pc |-> "inserting",
                                     status |-> 0, reached |-> TRUE])
            /\ inserts' = Append(inserts, [start |-> b.start, end |-> b.end])
  /\ UNCHANGED events
  /\ UNCHANGED slotVars

\* lines 32-45: the provider creates the event, 200
InsertOk(i) ==
  /\ i \in 1..Len(book) /\ book[i].pc = "inserting"
  /\ events' = Append(events, [start |-> book[i].request.start,
                               end |-> book[i].request.end])
  /\ book' = [book EXCEPT ![i].pc = "done", ![i].status = 200]
  /\ UNCHANGED inserts
  /\ UNCHANGED slotVars

\* lines 46-49: the insert rejects, 500
InsertFail(i) ==
  /\ i \in 1..Len(book) /\ book[i].pc = "inserting"
  /\ book' = [book EXCEPT ![i].pc = "done", ![i].status = 500]
  /\ UNCHANGED <<events, inserts>>
  /\ UNCHANGED slotVars

NextBook ==
  \/ BookArrive
  \/ \E i \in 1..MaxBooks : InsertOk(i)
  \/ \E i \in 1..MaxBooks : InsertFail(i)

SpecBook == InitBook /\ [][NextBook]_vars

----------------------------------------------------------------------------
(* findSlots run to its return with the clock held at `now` *)

StepFrame(s, now) ==
  CASE s.pc = "day" -> DayHead(s)
    [] s.pc = "busy" -> BusyHead(s)
    [] s.pc = "gap" -> GapIter(s, now)
    [] s.pc = "gapdone" -> GapDone(s)
    [] s.pc = "tail" -> TailHead(s)
    [] s.pc = "tailfill" -> TailIter(s, now)
    [] s.pc = "nextday" -> NextDay(s)
    [] OTHER -> s

RECURSIVE RunFrame(_, _)
RunFrame(s, now) == IF s.pc = "return" THEN s ELSE RunFrame(StepFrame(s, now), now)

\* the slots findSlots returns for a reply, with the clock held at `now`
FindSlots(fromISO, toISO, tz, durationMin, maxSlots, reply, now) ==
  RunFrame(Enter(fromISO, toISO, tz, durationMin, maxSlots, reply), now).results

----------------------------------------------------------------------------
(* Vocabulary of the properties *)

Started == phase \in {"finding", "responded"} /\ f.pc # "idle"
Returned == phase = "responded" /\ resp.status = 200
WellFormed(busy) == \A k \in 1..Len(busy) : busy[k].start < busy[k].end
SortedByStart(busy) ==
  \A i, j \in 1..Len(busy) : i < j => busy[i].start <= busy[j].start
Overlap(s, b) == ~(s.end <= b.start \/ s.start >= b.end)
Days == 0..5
DayStartOf(day) == TzInstant(day, WORK_START, f.tz)
DayEndOf(day) == TzInstant(day, WORK_END, f.tz)
Covers(b, day) == b.start <= DayStartOf(day) /\ DayEndOf(day) <= b.end
InDay(s, day) == DayStartOf(day) <= s.start /\ s.end <= DayEndOf(day)

\* C1: with a positive duration and a sorted busy list of well-formed
\* intervals, no slot collected so far overlaps any busy interval, and a day
\* whose business window is covered by one busy block has no slot.
NoSlotOverlapsBusy ==
  (Started /\ f.durationMin > 0 /\ WellFormed(f.busy) /\ SortedByStart(f.busy)) =>
    /\ \A i \in 1..Len(f.results) : \A k \in 1..Len(f.busy) :
         ~Overlap(f.results[i], f.busy[k])
    /\ \A day \in Days :
         (\E k \in 1..Len(f.busy) : Covers(f.busy[k], day)) =>
           \A i \in 1..Len(f.results) : ~InDay(f.results[i], day)

\* two overlapping busy blocks and slots on both sides of their union
WitnessOverlappingBusy ==
  /\ Returned /\ f.durationMin > 0 /\ WellFormed(f.busy)
  /\ Len(f.busy) = 2 /\ f.busy[2].start < f.busy[1].end
  /\ f.busy[2].end > f.busy[1].end
  /\ \E i, j \in 1..Len(f.results) :
       /\ f.results[i].end <= f.busy[1].start
       /\ f.results[j].start >= f.busy[2].end
       /\ InDay(f.results[i], 2) /\ InDay(f.results[j], 2)

SlotHasDuration ==
  Started => \A i \in 1..Len(f.results) :
               f.results[i].end - f.results[i].start = f.durationMin

WitnessSlotsAroundBusy ==
  /\ Returned /\ f.durationMin = 120 /\ Len(f.results) >= 3 /\ Len(f.busy) >= 1

\* C4: every collected slot starts strictly after the clock value read when it
\* was generated, hence after the clock value at the start of the request.
SlotAfterNow ==
  Started =>
    /\ Len(readNow) = Len(f.results)
    /\ \A i \in 1..Len(f.results) :
         /\ f.results[i].start > readNow[i]
         /\ readNow[i] >= nowAtStart
         /\ f.results[i].start > nowAtStart

\* a slot starting exactly at `now` was skipped and a later one returned,
\* after the clock moved during the computation
WitnessPastSlotSkipped ==
  /\ Returned /\ f.durationMin > 0 /\ clock > nowAtStart
  /\ Len(f.results) >= 1
  /\ f.results[1].start = clock + f.durationMin
  /\ InDay([start |-> clock, end |-> clock + f.durationMin], 2)
  /\ \A k \in 1..Len(f.busy) : f.busy[k].start > clock + f.durationMin

\* C5: with a positive cap the results list never holds more than maxSlots
\* entries, at any point of the computation.
NeverMoreThanMaxSlots ==
  (Started /\ f.maxSlots > 0) => Len(f.results) <= f.maxSlots

\* the cap was reached inside a gap in front of a busy block
WitnessCapReachedInGap ==
  /\ phase = "finding" /\ f.pc = "gapdone" /\ f.maxSlots > 0
  /\ Len(f.results) = f.maxSlots
  /\ f.results[Len(f.results)].end + f.durationMin <= f.todaysBusy[f.bi].start

\* C6: with a positive duration and well-formed busy intervals the collected
\* slots are in ascending order of start, in every zone.
SlotsSortedByStart ==
  (Started /\ f.durationMin > 0 /\ WellFormed(f.busy)) =>
    \A i, j \in 1..Len(f.results) :
      i < j => f.results[i].start <= f.results[j].start

\* the slots the request gets with an unbounded cap and the clock held
Uncapped == FindSlots(f.fromISO, f.toISO, f.tz, f.durationMin, NoCap, f.busy, clock)
ClockHeld == clock = nowAtStart
Min(a, b) == IF a < b THEN a ELSE b
Max(a, b) == IF a > b THEN a ELSE b

\* C7: with the clock held, the slots returned under cap k are the first k
\* slots returned under an unbounded cap; under cap 1, when there is a valid
\* slot, exactly one slot is returned and no valid slot starts earlier.
CapKeepsEarliest ==
  (Returned /\ f.durationMin > 0 /\ ClockHeld) =>
    /\ Len(Uncapped) < NoCap
    /\ resp.slots = SubSeq(Uncapped, 1, Min(f.maxSlots, Len(Uncapped)))
    /\ (f.maxSlots = 1 /\ Len(Uncapped) >= 1) =>
         /\ Len(resp.slots) = 1
         /\ \A j \in 1..Len(Uncapped) : resp.slots[1].start <= Uncapped[j].start

\* the cap cut the result short, on a day with a busy block
WitnessTruncatedByCap ==
  /\ Returned /\ f.durationMin > 0 /\ ClockHeld
  /\ f.maxSlots = 3 /\ Len(resp.slots) = 3 /\ Len(Uncapped) > 3
  /\ Len(f.todaysBusy) >= 1 /\ WellFormed(f.busy)

\* the civil days the day loop evaluates (cursor = from, from + 1 day, ...)
ProcessedDays ==
  { day \in Days :
      /\ \E k \in 0..3 : /\ f.fromISO + k * MinPerDay < f.toISO
                        /\ day = LocalDay(f.fromISO + k * MinPerDay, f.tz)
      /\ DayEndOf(day) > f.fromISO }

RECURSIVE AnchorAfter(_, _, _)
\* the end of the busy time seen so far: dayStart, or the latest end among the
\* first n busy blocks of the day when later
AnchorAfter(tb, n, dayStart) ==
  IF n = 0 THEN dayStart ELSE Max(AnchorAfter(tb, n - 1, dayStart), tb[n].end)

\* the free gaps of a day as <<anchor, gapEnd>>
GapsOf(day) ==
  LET tb == SelectSeq(f.busy, LAMBDA b : b.end > DayStartOf(day) /\ b.start < DayEndOf(day))
  IN  { <<AnchorAfter(tb, n - 1, DayStartOf(day)), tb[n].start>> : n \in 1..Len(tb) }
        \cup { <<AnchorAfter(tb, Len(tb), DayStartOf(day)), DayEndOf(day)>> }

\* the grid slots of a gap that start after now
GridSlots(gap, d, now) ==
  { [start |-> gap[1] + k * d, end |-> gap[1] + (k + 1) * d] :
      k \in { k \in 0..8 : gap[1] + (k + 1) * d <= gap[2] /\ gap[1] + k * d > now } }

ExpectedSlots ==
  UNION { UNION { GridSlots(gap, f.durationMin, clock) : gap \in GapsOf(day) } :
          day \in ProcessedDays }

SlotSet(slots) == { slots[i] : i \in 1..Len(slots) }

\* 09:00-17:00 Chicago, one busy block 10:00-11:00, duration 30, now earlier
ExampleBusyHour ==
  LET got == FindSlots(3210, 4650, Chicago, 30, NoCap,
                       <<[start |-> 3780, end |-> 3840]>>, 1000)
  IN  /\ Len(got) = 14
      /\ got[1] = [start |-> 3720, end |-> 3750]
      /\ got[2] = [start |-> 3750, end |-> 3780]
      /\ \A i \in 3..14 : got[i] = [start |-> 3840 + (i - 3) * 30,
                                    end |-> 3840 + (i - 2) * 30]

\* three days without busy blocks, duration 60: 8 slots a day
ExampleThreeDays ==
  LET got == FindSlots(3210, 7530, Chicago, 60, NoCap, <<>>, 1000)
  IN  /\ Len(got) = 24
      /\ \A n \in 0..2 : \A k \in 0..7 :
           got[8 * n + k + 1].start = 3720 + n * MinPerDay + 60 * k

\* C8: with a positive duration, well-formed busy blocks and the clock held,
\* the returned slots are grid slots of the free gaps of the processed days
\* that start after now, and all of them when the cap was not reached; the two
\* scenarios of the specification give the slots it lists.
SlotsAreGapGrid ==
  /\ (Returned /\ f.durationMin > 0 /\ WellFormed(f.busy) /\ ClockHeld) =>
       /\ SlotSet(resp.slots) \subseteq ExpectedSlots
       /\ Len(resp.slots) < f.maxSlots => SlotSet(resp.slots) = ExpectedSlots
  /\ phase = "idle" => (ExampleBusyHour /\ ExampleThreeDays)

\* the grid restarts at the end of a busy block, off the grid of the day start,
\* and a grid slot in the past is left out
WitnessGridShiftsAfterBusy ==
  /\ Returned /\ f.durationMin = 120 /\ ClockHeld /\ Len(resp.slots) < f.maxSlots
  /\ f.busy = <<[start |-> 3840, end |-> 3900]>>
  /\ f.tz = Chicago /\ clock = 3720
  /\ resp.slots = <<[start |-> 3900, end |-> 4020], [start |-> 4020, end |-> 4140]>>

\* C9: with the clock held, a reply with zero-length or inverted intervals
\* gives the slots the reply without them gives.
DegenerateBusyInert ==
  (Returned /\ f.durationMin > 0 /\ ClockHeld) =>
    resp.slots = FindSlots(f.fromISO, f.toISO, f.tz, f.durationMin, f.maxSlots,
                           SelectSeq(f.busy, LAMBDA b : b.start < b.end), clock)

\* C10: a request with a non-positive duration or limit is answered 400, with
\* no freebusy query issued and findSlots not entered.
NonPositiveRejected ==
  (phase # "idle" /\ (req.durationMin <= 0 \/ req.limit <= 0)) =>
    /\ phase = "responded" /\ resp.status = 400
    /\ fbCalls = 0 /\ f.pc = "idle"

\* C11: a request whose window has from >= to is answered 400, with no
\* freebusy query issued and findSlots not entered.
BadWindowRejected ==
  (phase # "idle" /\ BadWindow(req)) =>
    /\ phase = "responded" /\ resp.status = 400
    /\ fbCalls = 0 /\ fb = "none" /\ f.pc = "idle"

\* C12: when the freebusy query fails, findSlots is abandoned with no slot
\* collected, the response carries no slots, and its status is neither 200
\* nor the 400 of the validation failures, which are answered without a query.
QueryFailureAborts ==
  /\ fb = "failed" =>
       /\ phase = "responded" /\ f.pc = "idle" /\ f.results = <<>>
       /\ resp.slots = <<>> /\ resp.status \notin {200, 400}
  /\ resp.status = 400 => fb = "none"

WitnessQueryFailed ==
  /\ fb = "failed" /\ phase = "responded" /\ resp.status = 502
  /\ ~BadWindow(req) /\ req.durationMin > 0 /\ req.limit > 0

\* the cursor values for which the body of the day loop has run
EvaluatedCursors ==
  { f.fromISO + k * MinPerDay : k \in { k \in 0..4 : f.fromISO + k * MinPerDay < f.cursor } }

\* C14: once the day loop has run through the window, the civil days it
\* evaluated are in ascending order with none repeated, and every civil day
\* whose business window intersects [from, to) is among them.
EachCivilDayOnce ==
  (Started /\ f.pc = "return" /\ f.cursor >= f.toISO
     /\ f.durationMin > 0 /\ f.maxSlots > 0) =>
    /\ \A c1, c2 \in EvaluatedCursors :
         c1 < c2 => LocalDay(c1, f.tz) < LocalDay(c2, f.tz)
    /\ \A day \in Days :
         (DayStartOf(day) < f.toISO /\ DayEndOf(day) > f.fromISO) =>
           \E c \in EvaluatedCursors : LocalDay(c, f.tz) = day

\* C16: the freebusy query is issued at most once per request; findSlots
\* starts its loops only after the query has resolved, and after a failed
\* query no further query is issued and no slot is generated.
QueryOnceAndAwaited ==
  /\ fbCalls <= 1
  /\ fb \in {"none", "pending"} => (f.pc = "idle" /\ readNow = <<>>)
  /\ f.pc # "idle" => (fb = "ok" /\ fbCalls = 1)
  /\ fb = "failed" => (fbCalls = 1 /\ f.pc = "idle" /\ readNow = <<>>)

WitnessSlotsAfterQuery ==
  /\ phase = "finding" /\ fb = "ok" /\ fbCalls = 1
  /\ Len(f.results) >= 2 /\ Len(f.busy) >= 1

\* C17: every iteration of a slot-filling loop makes progress: it leaves the
\* loop, moves slotStart forward, or collects a slot on its way to the cap.
FillLoopsAdvance ==
  (phase = "finding" /\ f.pc \in {"gap", "tailfill"}) =>
    LET t == StepFrame(f, clock)
    IN  \/ t.pc # f.pc
        \/ t.slotStart > f.slotStart
        \/ (Len(t.results) > Len(f.results) /\ f.maxSlots > 0)

\* C18: with a positive duration every collected slot lies inside the query
\* window, from <= start and end <= to.
SlotsInsideWindow ==
  (Started /\ f.durationMin > 0) =>
    \A i \in 1..Len(f.results) :
      f.fromISO <= f.results[i].start /\ f.results[i].end <= f.toISO

\* C19: with a positive duration and well-formed busy intervals the collected
\* slots are pairwise disjoint, each ending before the next starts.
SlotsPairwiseDisjoint ==
  (Started /\ f.durationMin > 0 /\ WellFormed(f.busy)) =>
    \A i, j \in 1..Len(f.results) :
      i < j => f.results[i].end <= f.results[j].start

Complete(b) == b.calendarId /\ b.start # None /\ b.end # None
Admitted(b) == b.method = "POST" /\ b.keyOk
IsSlot(b) == b.start \notin {None, Unparseable} /\ b.end \notin {None, Unparseable}

\* C15: the book handler consults no busy data; every admitted request with
\* calendarId and a start and end that are instants, and no other request,
\* reaches the event-creation call, whatever the
\* calendar already holds and whatever other requests are in flight, and a
\* created event is added to the calendar next to the ones in the same slot;
\* an admitted request missing one of the three is answered 400 and reaches
\* no event-creation call.
BookIsPassThrough ==
  /\ fbCalls = 0 /\ fb = "none"
  /\ \A i \in 1..Len(book) :
       LET b == book[i].request
       IN  /\ (Admitted(b) /\ b.calendarId /\ IsSlot(b)) <=> book[i].reached
           /\ (Admitted(b) /\ ~Complete(b)) => book[i].status = 400
           /\ book[i].status = 200 =>
                \E k \in 1..Len(events) :
                  events[k] = [start |-> b.start, end |-> b.end]
  /\ Len(inserts) = Cardinality({ i \in 1..Len(book) : book[i].reached })
  /\ Len(events) >= Cardinality({ i \in 1..Len(book) : book[i].status = 200 })

\* two requests for a slot the calendar already holds an event in: both were
\* in flight together, both created their event
WitnessDoubleBooking ==
  /\ Len(book) = 2 /\ Len(inserts) = 2 /\ inserts[1] = inserts[2]
  /\ book[1].status = 200 /\ book[2].status = 200
  /\ Len(events) = 3 /\ events[1] = events[2] /\ events[2] = events[3]

====
